---- MODULE Spec2Model ----
(***************************************************************************)
(* Model of app.py: the retrieval-augmented chat over the Constitution.    *)
(*                                                                         *)
(* Every Streamlit session runs the script top to bottom for each chat     *)
(* input.  A run with a non-empty `pregunta` calls crear_embedding,        *)
(* buscar_similares and, when something was retrieved, generar_respuesta,  *)
(* then appends the exchange to st.session_state.historial.  The three     *)
(* providers (embedding model, vector store, generative model) are         *)
(* external: their responses are chosen nondeterministically.              *)
(*                                                                         *)
(* Python strings are modelled as sequences of tokens, so that "" is <<>>  *)
(* and "\n\n".join(...) is a real concatenation.                           *)
(***************************************************************************)
EXTENDS Integers, Sequences, FiniteSets, TLC

\* ------------------------------------------------------------------ bounds
MaxQueries == 2          \* chat inputs submitted over all sessions
StoreSize  == 6          \* passages the vector index can match for a query
MaxK       == 7          \* largest k the retriever contract is tried with

\* ------------------------------------------------------- program constants
K             == 5       \* buscar_similares(emb, k=5)
NumCandidates == 100     \* "numCandidates": 100

FALLBACK == <<"No encontré información relevante en la Constitución.">>
SEP      == "\n\n"

Sessions  == {"s1", "s2"}
Questions == {<<"q1">>, <<"q2">>}
None      == <<"None">>

\* error kinds: an exception raised by a provider client, the KeyError of
\* resp["embedding"], the ValueError of respuesta.text without parts
UpstreamUnavailable == "UpstreamUnavailable"
InvalidResponse     == "InvalidResponse"
EmptyGeneration     == "EmptyGeneration"

VARIABLES
    pc,          \* per session: position of the script run
    pregunta,    \* st.chat_input(...) of the current run
    emb,         \* emb = crear_embedding(pregunta)
    similares,   \* similares = buscar_similares(emb, k=5)
    respuesta,   \* respuesta of the current run
    historial,   \* st.session_state.historial
    err,         \* exception that ended the run, or "none"
    thrown,      \* where and what the current run raised, as it was raised
    embCalls,    \* calls of genai.embed_content in the current run
    retCalls,    \* calls of collection.aggregate in the current run
    synCalls,    \* calls of generar_respuesta in the current run
    genCalls,    \* calls of modelo.generate_content in the current run
    pipeline,    \* the $vectorSearch stage sent to the store
    matches,     \* what the index matched for that query, ranked
    synArgs,     \* arguments generar_respuesta was called with
    prompt,      \* prompt sent to the generative model
    genResp,     \* response of the generative model
    exchanges,   \* per session: <<question, answer>> of each answered run
    nQueries     \* chat inputs submitted so far

vars == <<pc, pregunta, emb, similares, respuesta, historial, err, thrown,
          embCalls, retCalls, synCalls, genCalls, pipeline, matches, synArgs,
          prompt, genResp, exchanges, nQueries>>

\* ------------------------------------------------------------ pure helpers
Min(a, b) == IF a <= b THEN a ELSE b

RECURSIVE Join(_, _)
\* sep.join(texts)
Join(sep, texts) ==
    IF texts = <<>> THEN <<>>
    ELSE IF Len(texts) = 1 THEN Head(texts)
    ELSE Head(texts) \o <<sep>> \o Join(sep, Tail(texts))

RECURSIVE Concat(_)
\* "".join(parts)
Concat(parts) ==
    IF parts = <<>> THEN <<>> ELSE Head(parts) \o Concat(Tail(parts))

NoThrow         == [stage |-> "none", kind |-> "none"]
Throw(stage, e) == [stage |-> stage, kind |-> e]

Raised(e)   == [raised |-> e, value |-> None]
Returned(v) == [raised |-> "none", value |-> v]

\* ------------------------------------------------------ external providers
\* The embedding of a text, as the embedding model computes it.
EmbeddingOf(texto) == <<"vec">> \o texto

\* genai.embed_content(model, content): raises, or answers with a response
\* that holds the vector, or with one that does not.
EmbedContent(texto) ==
    { [raised |-> UpstreamUnavailable, resp |-> [status |-> "error"]],
      [raised |-> "none", resp |-> [status |-> "no vector"]],
      [raised |-> "none", resp |-> [embedding |-> EmbeddingOf(texto)]] }

ArticuloA == <<"Articulo", "1">>
ArticuloB == <<"Articulo", "2">>

\* Stored documents as the index ranks them for a query, best first.  Two
\* orders: alternating texts, and one with a text repeated.
Rankings ==
    { [i \in 1..StoreSize |->
          [id |-> i, texto |-> IF i % 2 = 1 THEN ArticuloB ELSE ArticuloA,
           score |-> 10 * (StoreSize - i)]],
      [i \in 1..StoreSize |->
          [id |-> i, texto |-> IF i % 3 = 0 THEN ArticuloB ELSE ArticuloA,
           score |-> StoreSize - i]] }

\* What the index matches for one query: any prefix of a ranking.
IndexMatches ==
    { SubSeq(r, 1, n) : r \in Rankings, n \in 0..StoreSize }

\* $vectorSearch followed by $project, as the store evaluates them.
Aggregate(stage, ranked) ==
    LET n == Min(Len(ranked), Min(stage.limit, stage.numCandidates))
    IN  [i \in 1..n |-> [texto |-> ranked[i].texto, score |-> ranked[i].score]]

\* The question quoted in a prompt: what stands between the last
\* "Pregunta:" and the closing instruction.
QuestionOf(p) ==
    LET at == CHOOSE i \in 1..Len(p) :
                  /\ p[i] = "Pregunta:"
                  /\ \A j \in (i + 1)..Len(p) : p[j] # "Pregunta:"
    IN  SubSeq(p, at + 1, Len(p) - 1)

\* modelo.generate_content(prompt): raises, or answers with no part, with an
\* empty text, with a text about the question, or with the very words of the
\* fallback.
GenerateContent(p) ==
    { [raised |-> UpstreamUnavailable, parts |-> <<>>],
      [raised |-> "none", parts |-> <<>>],
      [raised |-> "none", parts |-> << <<>> >>],
      [raised |-> "none", parts |-> << <<"Segun la Constitucion,">>, QuestionOf(p) >>],
      [raised |-> "none", parts |-> << FALLBACK >>] }

\* ------------------------------------------------------------- the program
\* crear_embedding: resp = genai.embed_content(...); return resp["embedding"]
CrearEmbedding(out) ==
    IF out.raised # "none" THEN Raised(out.raised)
    ELSE IF "embedding" \in DOMAIN out.resp THEN Returned(out.resp.embedding)
    ELSE Raised(InvalidResponse)

\* variant: the candidate pool size is sent as the limit
VectorSearchStageCandidates(embedding, k) ==
    [index |-> "vector_index", path |-> "embedding", queryVector |-> embedding,
     numCandidates |-> NumCandidates, limit |-> NumCandidates]

\* the "$vectorSearch" stage buscar_similares builds
VectorSearchStage(embedding, k) ==
    [index |-> "vector_index", path |-> "embedding", queryVector |-> embedding,
     numCandidates |-> NumCandidates, limit |-> k]

\* buscar_similares: list(collection.aggregate(pipeline))
BuscarSimilares(embedding, k, ranked) ==
    Aggregate(VectorSearchStage(embedding, k), ranked)

\* variant: the passages are joined last first
ContextoReversed(contextos) ==
    Join(SEP, [i \in 1..Len(contextos) |->
                  contextos[Len(contextos) + 1 - i].texto])

\* contexto = "\n\n".join([c["texto"] for c in contextos])
Contexto(contextos) ==
    Join(SEP, [i \in 1..Len(contextos) |-> contextos[i].texto])

\* the f-string of generar_respuesta
Prompt(q, contextos) ==
    <<"Eres un asistente experto en derecho constitucional peruano.", "Contexto:">>
        \o Contexto(contextos)
        \o <<"Pregunta:">> \o q
        \o <<"Responde de forma clara, objetiva y en espanol.">>

\* respuesta.text: the parts' texts joined; raises when there is no part
ResponseText(out) ==
    IF out.raised # "none" THEN Raised(out.raised)
    ELSE IF out.parts = <<>> THEN Raised(EmptyGeneration)
    ELSE Returned(Concat(out.parts))

\* variant: `if similares is None`, which a list never is
NoSimilaresIsNone(sim) == FALSE

\* variant: a best score under 10 counts as nothing found
NoSimilaresUnderThreshold(sim) ==
    IF Len(sim) = 0 THEN TRUE ELSE sim[1].score < 10

\* if not similares:
NoSimilares(sim) == Len(sim) = 0

\* variant: the answer is appended before the question
AppendExchangeBotFirst(h, q, a) ==
    Append(Append(h, [rol |-> "bot", texto |-> a]), [rol |-> "usuario", texto |-> q])

\* the two appends to the historial
AppendExchange(h, q, a) ==
    Append(Append(h, [rol |-> "usuario", texto |-> q]), [rol |-> "bot", texto |-> a])

\* variant: one process-wide state for every session
SessionStateShared(s) == CHOOSE t \in Sessions : TRUE

\* st.session_state: the state of the session the run belongs to
SessionState(s) == s

\* variant: the exception is caught and the fallback answered instead
RaiseAsFallback(s, e) ==
    /\ pc' = [pc EXCEPT ![s] = "idle"]
    /\ respuesta' = [respuesta EXCEPT ![s] = FALLBACK]
    /\ historial' = [historial EXCEPT
                        ![s] = Append(Append(@, [rol |-> "usuario", texto |-> pregunta[s]]),
                                      [rol |-> "bot", texto |-> FALLBACK])]
    /\ UNCHANGED err

\* variant: the exception is caught and raised again as a generic error
RaiseWrapped(s, e) ==
    /\ pc' = [pc EXCEPT ![s] = "idle"]
    /\ err' = [err EXCEPT ![s] = "RuntimeError"]
    /\ UNCHANGED <<respuesta, historial>>

\* An exception leaves the script: nothing catches it, the run ends there.
Raise(s, e) ==
    /\ pc' = [pc EXCEPT ![s] = "idle"]
    /\ err' = [err EXCEPT ![s] = e]
    /\ UNCHANGED <<respuesta, historial>>

\* The run has its answer: lines 200-201, then the script renders and ends.
Answered(s, a) ==
    /\ pc' = [pc EXCEPT ![s] = "idle"]
    /\ respuesta' = [respuesta EXCEPT ![s] = a]
    /\ historial' = [historial EXCEPT
                        ![SessionState(s)] = AppendExchange(@, pregunta[s], a)]
    /\ UNCHANGED err

Init ==
    /\ pc = [s \in Sessions |-> "idle"]
    /\ pregunta = [s \in Sessions |-> <<>>]
    /\ emb = [s \in Sessions |-> None]
    /\ similares = [s \in Sessions |-> None]
    /\ respuesta = [s \in Sessions |-> None]
    /\ historial = [s \in Sessions |-> <<>>]
    /\ err = [s \in Sessions |-> "none"]
    /\ thrown = [s \in Sessions |-> NoThrow]
    /\ embCalls = [s \in Sessions |-> 0]
    /\ retCalls = [s \in Sessions |-> 0]
    /\ synCalls = [s \in Sessions |-> 0]
    /\ genCalls = [s \in Sessions |-> 0]
    /\ pipeline = [s \in Sessions |-> None]
    /\ matches = [s \in Sessions |-> None]
    /\ synArgs = [s \in Sessions |-> None]
    /\ prompt = [s \in Sessions |-> None]
    /\ genResp = [s \in Sessions |-> None]
    /\ exchanges = [s \in Sessions |-> <<>>]
    /\ nQueries = 0

\* A chat input arrives and the script runs again from the top with fresh
\* names; an empty input skips the query block.
Submit(s) ==
    /\ pc[s] = "idle"
    /\ nQueries < MaxQueries
    /\ \E q \in Questions \cup {<<>>} :
          /\ pregunta' = [pregunta EXCEPT ![s] = q]
          /\ pc' = [pc EXCEPT ![s] = IF q # <<>> THEN "embedding" ELSE "idle"]
    /\ nQueries' = nQueries + 1
    /\ emb' = [emb EXCEPT ![s] = None]
    /\ similares' = [similares EXCEPT ![s] = None]
    /\ respuesta' = [respuesta EXCEPT ![s] = None]
    /\ err' = [err EXCEPT ![s] = "none"]
    /\ thrown' = [thrown EXCEPT ![s] = NoThrow]
    /\ embCalls' = [embCalls EXCEPT ![s] = 0]
    /\ retCalls' = [retCalls EXCEPT ![s] = 0]
    /\ synCalls' = [synCalls EXCEPT ![s] = 0]
    /\ genCalls' = [genCalls EXCEPT ![s] = 0]
    /\ pipeline' = [pipeline EXCEPT ![s] = None]
    /\ matches' = [matches EXCEPT ![s] = None]
    /\ synArgs' = [synArgs EXCEPT ![s] = None]
    /\ prompt' = [prompt EXCEPT ![s] = None]
    /\ genResp' = [genResp EXCEPT ![s] = None]
    /\ UNCHANGED <<historial, exchanges>>

\* variant: a failed embedding is tried once more
EmbedRetry(s) ==
    /\ pc[s] = "embedding"
    /\ embCalls' = [embCalls EXCEPT ![s] = @ + 1]
    /\ \E out \in EmbedContent(pregunta[s]) :
          LET r == CrearEmbedding(out) IN
          IF r.raised # "none"
          THEN IF embCalls[s] = 0
               THEN UNCHANGED <<pc, err, thrown, respuesta, historial, emb>>
               ELSE /\ thrown' = [thrown EXCEPT ![s] = Throw("embed", r.raised)]
                    /\ Raise(s, r.raised)
                    /\ UNCHANGED emb
          ELSE /\ emb' = [emb EXCEPT ![s] = r.value]
               /\ pc' = [pc EXCEPT ![s] = "retrieving"]
               /\ UNCHANGED <<err, thrown, respuesta, historial>>
    /\ UNCHANGED <<exchanges, pregunta, similares, retCalls, synCalls, genCalls,
                   pipeline, matches, synArgs, prompt, genResp, nQueries>>

\* emb = crear_embedding(pregunta)
Embed(s) ==
    /\ pc[s] = "embedding"
    /\ embCalls' = [embCalls EXCEPT ![s] = @ + 1]
    /\ \E out \in EmbedContent(pregunta[s]) :
          LET r == CrearEmbedding(out) IN
          IF r.raised # "none"
          THEN /\ thrown' = [thrown EXCEPT ![s] = Throw("embed", r.raised)]
               /\ Raise(s, r.raised)
               /\ UNCHANGED emb
          ELSE /\ emb' = [emb EXCEPT ![s] = r.value]
               /\ pc' = [pc EXCEPT ![s] = "retrieving"]
               /\ UNCHANGED <<err, thrown, respuesta, historial>>
    /\ UNCHANGED <<exchanges, pregunta, similares, retCalls, synCalls, genCalls, pipeline,
                   matches, synArgs, prompt, genResp, nQueries>>

\* similares = buscar_similares(emb, k=5)
Retrieve(s) ==
    /\ pc[s] = "retrieving"
    /\ retCalls' = [retCalls EXCEPT ![s] = @ + 1]
    /\ pipeline' = [pipeline EXCEPT ![s] = VectorSearchStage(emb[s], K)]
    /\ \/ /\ thrown' = [thrown EXCEPT
                             ![s] = Throw("retrieve", UpstreamUnavailable)]
          /\ Raise(s, UpstreamUnavailable)
          /\ UNCHANGED <<similares, matches>>
       \/ \E ranked \in IndexMatches :
             /\ matches' = [matches EXCEPT ![s] = ranked]
             /\ similares' = [similares EXCEPT
                                 ![s] = BuscarSimilares(emb[s], K, ranked)]
             /\ pc' = [pc EXCEPT ![s] = "deciding"]
             /\ UNCHANGED <<err, thrown, respuesta, historial>>
    /\ UNCHANGED <<exchanges, pregunta, emb, embCalls, synCalls, genCalls, synArgs,
                   prompt, genResp, nQueries>>

\* if not similares: respuesta = "No encontré ..."; then the two appends
Fallback(s) ==
    /\ pc[s] = "deciding"
    /\ NoSimilares(similares[s])
    /\ Answered(s, FALLBACK)
    /\ exchanges' = [exchanges EXCEPT ![s] = Append(@, <<pregunta[s], FALLBACK>>)]
    /\ UNCHANGED <<thrown, pregunta, emb, similares, embCalls, retCalls, synCalls,
                   genCalls, pipeline, matches, synArgs, prompt, genResp,
                   nQueries>>

\* else: respuesta = generar_respuesta(pregunta, similares); then the appends
Synthesize(s) ==
    /\ pc[s] = "deciding"
    /\ ~NoSimilares(similares[s])
    /\ synCalls' = [synCalls EXCEPT ![s] = @ + 1]
    /\ genCalls' = [genCalls EXCEPT ![s] = @ + 1]
    /\ synArgs' = [synArgs EXCEPT
                      ![s] = [pregunta |-> pregunta[s], contextos |-> similares[s]]]
    /\ LET p == Prompt(pregunta[s], similares[s]) IN
       /\ prompt' = [prompt EXCEPT ![s] = p]
       /\ \E out \in GenerateContent(p) :
             LET r == ResponseText(out) IN
             /\ genResp' = [genResp EXCEPT ![s] = out]
             /\ IF r.raised # "none"
                THEN /\ thrown' = [thrown EXCEPT
                                       ![s] = Throw("synthesize", r.raised)]
                     /\ Raise(s, r.raised)
                     /\ UNCHANGED exchanges
                ELSE /\ Answered(s, r.value)
                     /\ exchanges' = [exchanges EXCEPT
                                          ![s] = Append(@, <<pregunta[s], r.value>>)]
                     /\ UNCHANGED thrown
    /\ UNCHANGED <<pregunta, emb, similares, embCalls, retCalls, pipeline,
                   matches, nQueries>>

Next ==
    \E s \in Sessions :
        \/ Submit(s)
        \/ Embed(s)
        \/ Retrieve(s)
        \/ Fallback(s)
        \/ Synthesize(s)

Spec == Init /\ [][Next]_vars

\* ---------------------------------------------------------------- properties
\* the Retriever has returned in the current run of s
Retrieved(s) == retCalls[s] >= 1 /\ thrown[s].stage # "retrieve"

\* the current run of s is over and was a query
QueryEnded(s) == pc[s] = "idle" /\ embCalls[s] >= 1

\* the last two entries of the transcript of s
LastExchange(s) == SubSeq(historial[s], Len(historial[s]) - 1, Len(historial[s]))

\* C1: when the Retriever returns zero passages the Synthesizer and the
\* generative model are never called in that query, and the query ends with
\* the fallback literal as its answer, recorded as such in the transcript.
C1_ZeroPassagesFallback ==
    \A s \in Sessions :
        (Retrieved(s) /\ Len(similares[s]) = 0) =>
            /\ synCalls[s] = 0
            /\ genCalls[s] = 0
            /\ prompt[s] = None
            /\ QueryEnded(s) =>
                  /\ respuesta[s] = FALLBACK
                  /\ err[s] = "none"
                  /\ Len(historial[s]) >= 2
                  /\ LastExchange(s) = <<[rol |-> "usuario", texto |-> pregunta[s]],
                                         [rol |-> "bot", texto |-> FALLBACK]>>

C1_Witness ==
    \E s \in Sessions :
        /\ QueryEnded(s)
        /\ Retrieved(s)
        /\ Len(similares[s]) = 0
        /\ respuesta[s] = FALLBACK

\* C2: a failure of the Embedder or of the Retriever ends the query with that
\* failure: no later stage is called and the query has no answer, neither
\* the fallback nor a synthesized text, in `respuesta` or in the transcript.
C2_FailureAborts ==
    \A s \in Sessions :
        /\ thrown[s].stage = "embed" =>
              /\ retCalls[s] = 0 /\ synCalls[s] = 0 /\ genCalls[s] = 0
              /\ pc[s] = "idle" /\ err[s] # "none"
              /\ respuesta[s] = None
              /\ Len(historial[s]) = 2 * Len(exchanges[s])
        /\ thrown[s].stage = "retrieve" =>
              /\ synCalls[s] = 0 /\ genCalls[s] = 0
              /\ pc[s] = "idle" /\ err[s] # "none"
              /\ respuesta[s] = None
              /\ Len(historial[s]) = 2 * Len(exchanges[s])

C2_Witness ==
    \E s, t \in Sessions :
        /\ thrown[s].stage = "embed" /\ err[s] = InvalidResponse
        /\ thrown[t].stage = "retrieve" /\ err[t] = UpstreamUnavailable

\* C3: every query that has ended has exactly one of three outcomes, a
\* non-empty synthesized answer, the fallback literal, or a failure; the
\* answer is never the empty string, and a generative response without usable
\* text ends the query with EmptyGeneration.
C3_NoEmptyAnswer ==
    \A s \in Sessions :
        QueryEnded(s) =>
            /\ (respuesta[s] # None) # (err[s] # "none")
            /\ respuesta[s] # <<>>
            /\ (genCalls[s] = 1 /\ genResp[s].raised = "none"
                    /\ Concat(genResp[s].parts) = <<>>)
                  => err[s] = EmptyGeneration

RECURSIVE StartOf(_, _)
\* tokens of a prompt that stand before the text of passage i: the two of
\* the heading, then every earlier text with its separator
StartOf(sim, i) ==
    IF i = 1 THEN 2 ELSE StartOf(sim, i - 1) + Len(sim[i - 1].texto) + 1

\* C4: in the prompt sent to the generative model the context block holds
\* the texts of the retrieved passages, each once, in the order the Retriever
\* returned them (the rank order of the index), with one separator between
\* neighbours and nothing else up to the question.
C4_ContextInRankOrder ==
    \A s \in Sessions :
        genCalls[s] >= 1 =>
            LET sim == similares[s]
                p   == prompt[s]
                n   == Len(sim)
            IN  /\ n >= 1
                /\ \A i \in 1..n :
                      /\ sim[i].texto = matches[s][i].texto
                      /\ SubSeq(p, StartOf(sim, i) + 1,
                                StartOf(sim, i) + Len(sim[i].texto)) = sim[i].texto
                      /\ p[StartOf(sim, i) + Len(sim[i].texto) + 1]
                            = IF i < n THEN SEP ELSE "Pregunta:"

C4_Witness ==
    \E s \in Sessions :
        /\ genCalls[s] = 1
        /\ Len(similares[s]) >= 3
        /\ similares[s][1].texto # similares[s][2].texto
        /\ similares[s][1].score > similares[s][2].score

\* C5: an error raised in a stage is the error the query ends with, kind
\* unchanged, and such a query has no answer; a query ends with an error
\* only when a stage raised it.
C5_ErrorsUnchanged ==
    \A s \in Sessions :
        /\ thrown[s].kind # "none" =>
              /\ pc[s] = "idle"
              /\ err[s] = thrown[s].kind
              /\ respuesta[s] = None
        /\ err[s] # "none" => thrown[s].kind = err[s]
        /\ err[s] \in {"none", UpstreamUnavailable, InvalidResponse, EmptyGeneration}

C5_Witness ==
    \E s, t \in Sessions :
        /\ thrown[s] = Throw("synthesize", EmptyGeneration)
        /\ err[s] = EmptyGeneration
        /\ thrown[t] = Throw("embed", InvalidResponse)
        /\ err[t] = InvalidResponse

\* C6: the Retriever returns at most k passages whatever the index matched,
\* for every k from 1 to MaxK; called with k = 5 it returns at most 5, and
\* the Synthesizer is never given more than 5.
C6_AtMostK ==
    \A s \in Sessions :
        Retrieved(s) =>
            /\ Len(similares[s]) <= K
            /\ pipeline[s].limit = K
            /\ \A k \in 1..MaxK :
                  Len(BuscarSimilares(emb[s], k, matches[s])) <= k
            /\ synCalls[s] >= 1 => Len(synArgs[s].contextos) <= K

C6_Witness ==
    \E s \in Sessions :
        /\ Retrieved(s)
        /\ Len(matches[s]) > K
        /\ Len(similares[s]) = K
        /\ synCalls[s] = 1

\* C7: sessions do not touch each other.  A step of one session's run leaves
\* the question, answer, error and transcript of every other session as they
\* were; a transcript grows only when its own session's run ends with an
\* answer, and by that run's question and answer; and the prompt of a run
\* quotes that run's own question.
C7_SessionsIndependent ==
    /\ [](\A s \in Sessions :
             genCalls[s] >= 1 => QuestionOf(prompt[s]) = pregunta[s])
    /\ [][\A s \in Sessions :
             /\ (pc'[s] = pc[s] /\ \E t \in Sessions \ {s} : pc'[t] # pc[t]) =>
                   /\ historial'[s] = historial[s]
                   /\ respuesta'[s] = respuesta[s]
                   /\ pregunta'[s] = pregunta[s]
                   /\ err'[s] = err[s]
             /\ historial'[s] # historial[s] =>
                   /\ pc[s] = "deciding" /\ pc'[s] = "idle"
                   /\ respuesta'[s] # None
                   /\ historial'[s] = historial[s]
                         \o <<[rol |-> "usuario", texto |-> pregunta[s]],
                              [rol |-> "bot", texto |-> respuesta'[s]]>>]_vars

C7_Witness ==
    /\ Len(historial["s1"]) = 2
    /\ Len(historial["s2"]) = 2
    /\ historial["s1"][1].texto # historial["s2"][1].texto
    /\ historial["s1"][2].texto # historial["s2"][2].texto

\* C8: within a query each stage is called at most once and in order: the
\* Embedder as soon as the query runs, the Retriever only after the Embedder
\* returned and with the vector it returned, the Synthesizer only after the
\* Retriever returned; after a failure nothing more is called.
C8_SequentialNoRetry ==
    \A s \in Sessions :
        /\ embCalls[s] <= 1 /\ retCalls[s] <= 1
        /\ synCalls[s] <= 1 /\ genCalls[s] <= 1
        /\ pc[s] \in {"retrieving", "deciding"} => embCalls[s] = 1
        /\ pc[s] = "embedding" =>
              embCalls[s] = 0 /\ retCalls[s] = 0 /\ synCalls[s] = 0
        /\ retCalls[s] = 1 =>
              /\ embCalls[s] = 1
              /\ thrown[s].stage # "embed"
              /\ emb[s] = EmbeddingOf(pregunta[s])
              /\ pipeline[s].queryVector = emb[s]
        /\ synCalls[s] = 1 =>
              /\ retCalls[s] = 1
              /\ thrown[s].stage \notin {"embed", "retrieve"}
        /\ thrown[s].kind # "none" => pc[s] = "idle"
        /\ thrown[s].stage = "embed" => retCalls[s] = 0
        /\ thrown[s].stage = "retrieve" => synCalls[s] = 0

C8_Witness ==
    \E s, t \in Sessions :
        /\ QueryEnded(s)
        /\ embCalls[s] = 1 /\ retCalls[s] = 1 /\ synCalls[s] = 1
        /\ thrown[t].stage = "embed"
        /\ embCalls[t] = 1

\* C9: when the Retriever returns at least one passage, whatever its score,
\* the query does not take the fallback branch: once past the decision the
\* Synthesizer has been called once, with the question and all the passages
\* as returned, and an answer is the text of the generative model.
C9_OnlyEmptyFallsBack ==
    \A s \in Sessions :
        (Retrieved(s) /\ Len(similares[s]) >= 1 /\ pc[s] = "idle") =>
            /\ synCalls[s] = 1
            /\ synArgs[s] = [pregunta |-> pregunta[s], contextos |-> similares[s]]
            /\ respuesta[s] # None =>
                  /\ genResp[s].raised = "none"
                  /\ respuesta[s] = Concat(genResp[s].parts)

C9_Witness ==
    \E s \in Sessions :
        /\ Retrieved(s)
        /\ Len(similares[s]) = 1
        /\ similares[s][1].score < 10
        /\ synCalls[s] = 1
        /\ respuesta[s] = FALLBACK

\* the transcript that a sequence of answered queries makes
TranscriptOf(ex) ==
    [i \in 1..(2 * Len(ex)) |->
        IF i % 2 = 1
        THEN [rol |-> "usuario", texto |-> ex[(i + 1) \div 2][1]]
        ELSE [rol |-> "bot", texto |-> ex[i \div 2][2]]]

\* C10: the transcript of a session is, in order, one user entry with the
\* question followed by one bot entry with the answer for each of its
\* queries that ended with an answer, and nothing for those that failed:
\* its length is even and the roles alternate from the user.
C10_TranscriptShape ==
    \A s \in Sessions :
        /\ historial[s] = TranscriptOf(exchanges[s])
        /\ Len(historial[s]) % 2 = 0
        /\ \A i \in 1..Len(historial[s]) :
              historial[s][i].rol = IF i % 2 = 1 THEN "usuario" ELSE "bot"
        /\ thrown[s].kind # "none" => respuesta[s] = None

C10_Witness ==
    \E s \in Sessions :
        /\ Len(exchanges[s]) = 1
        /\ Len(historial[s]) = 2
        /\ thrown[s].kind # "none"
        /\ QueryEnded(s)

====
